---- MODULE Spec2Model ----
(***************************************************************************)
(* Price-Panda proxy: the "Smart Hybrid" handler (src/api/proxy.js), the   *)
(* dual-query handler (src/unnamed/part_000) and their pure helpers.       *)
(*                                                                         *)
(* Text is modelled as strings, read one character at a time with Head,   *)
(* Tail, SubSeq and SelectSeq.  A JavaScript Set is modelled as a          *)
(* duplicate-free sequence in insertion order (the order a Set iterates).  *)
(* A JavaScript number that results from a division is a pair              *)
(* [num, den] with den > 0, compared by cross-multiplication; den = 0      *)
(* stands for a division by zero.                                          *)
(***************************************************************************)
EXTENDS Integers, Sequences, FiniteSets, TLC

VARIABLES
    \* ---- tokenizer harness
    text, kw, kw2, tokPc,
    \* ---- similarity harness
    setA, setB, sim, jacPc,
    \* ---- Smart Hybrid handler
    request, env, limiter, upstream, pc, responses, fetchCalls,
    titleKeywords, userQueryKeywords, allResults, candidates, alternatives,
    \* ---- dual-query handler
    dRequest, dEnv, callPc, callUpstream, callResult, finished, dResponses

tokVars  == <<text, kw, kw2, tokPc>>
jacVars  == <<setA, setB, sim, jacPc>>
hybVars  == <<request, env, limiter, upstream, pc, responses, fetchCalls,
              titleKeywords, userQueryKeywords, allResults, candidates,
              alternatives>>
dualVars == <<dRequest, dEnv, callPc, callUpstream, callResult, finished,
              dResponses>>
vars     == <<tokVars, jacVars, hybVars, dualVars>>

(***************************************************************************)
(* Bounds of the model.                                                    *)
(***************************************************************************)
MaxTextLen    == 4
MaxTok        == 4
MaxCandidates == 2
MaxProducts   == 2

(***************************************************************************)
(* Strings.                                                                *)
(***************************************************************************)
Chars(s) == { SubSeq(s, i, i) : i \in 1..Len(s) }

Range(seq) == { seq[i] : i \in 1..Len(seq) }

UpperAlpha == "ABCDEFGHIJKLMNOPQRSTUVWXYZ"
LowerAlpha == "abcdefghijklmnopqrstuvwxyz"
Digits     == "0123456789"
Whitespace == {" ", "\t", "\n"}

UpperChars == Chars(UpperAlpha)
DigitChars == Chars(Digits)

\* String.prototype.toLowerCase, one character
LowerChar(c) ==
    IF c \in UpperChars
    THEN LET i == CHOOSE j \in 1..Len(UpperAlpha) : SubSeq(UpperAlpha, j, j) = c
         IN  SubSeq(LowerAlpha, i, i)
    ELSE c

RECURSIVE ToLowerCase(_)
ToLowerCase(s) ==
    IF s = "" THEN "" ELSE LowerChar(Head(s)) \o ToLowerCase(Tail(s))

\* the characters /[^a-z0-9\s-]/g leaves in place
KeptChars == Chars(LowerAlpha) \cup DigitChars \cup Whitespace \cup {"-"}

StripChars(s) == SelectSeq(s, LAMBDA c : c \in KeptChars)

RECURSIVE DropWhitespace(_)
DropWhitespace(s) ==
    IF s # "" /\ Head(s) \in Whitespace THEN DropWhitespace(Tail(s)) ELSE s

\* String.prototype.split(/\s+/): a leading or trailing run of whitespace
\* leaves an empty string at that end, and "" splits into [""]
RECURSIVE SplitFrom(_, _)
SplitFrom(rest, cur) ==
    IF rest = "" THEN <<cur>>
    ELSE IF Head(rest) \in Whitespace
         THEN <<cur>> \o SplitFrom(DropWhitespace(rest), "")
         ELSE SplitFrom(Tail(rest), cur \o Head(rest))

SplitWhitespace(s) == SplitFrom(s, "")

\* new Set(array): first occurrences, in insertion order
RECURSIVE ToSetFrom(_, _)
ToSetFrom(seq, acc) ==
    IF seq = <<>> THEN acc
    ELSE ToSetFrom(Tail(seq),
                   IF Head(seq) \in Range(acc) THEN acc
                   ELSE Append(acc, Head(seq)))

ToSet(seq) == ToSetFrom(seq, <<>>)

\* String.prototype.includes
Includes(s, t) ==
    \E i \in 1..(Len(s) - Len(t) + 1) : SubSeq(s, i, i + Len(t) - 1) = t

\* Array.prototype.join(' ')
RECURSIVE JoinSpace(_)
JoinSpace(seq) ==
    IF seq = <<>> THEN ""
    ELSE IF Len(seq) = 1 THEN Head(seq)
    ELSE Head(seq) \o " " \o JoinSpace(Tail(seq))

(***************************************************************************)
(* C. Helper functions of src/api/proxy.js.                                *)
(***************************************************************************)
stopWords ==
    {"a", "an", "for", "with", "the", "and", "in", "on", "of", "at", "to",
     "is", "it", "pcs", "set", "new", "hot", "compatible", "plus", "pro",
     "max", "ultra", "mini", "gen", "series"}

\* faulty variant: stop-words dropped before the punctuation
\* is stripped, so that "a!" comes out as the stop-word "a"
getKeywordSetFilterFirst(t) ==
    LET words    == SelectSeq(SplitWhitespace(ToLowerCase(t)),
                              LAMBDA word : word \notin stopWords)
        stripped == [i \in 1..Len(words) |-> StripChars(words[i])]
    IN  ToSet(SelectSeq(stripped, LAMBDA word : word # ""))

getKeywordSet(t) ==
    ToSet(SelectSeq(SplitWhitespace(StripChars(ToLowerCase(t))),
                    LAMBDA word : word # "" /\ word \notin stopWords))

\* a JavaScript number n
Num(n) == [num |-> n, den |-> 1]

\* faulty variant: the size guard left out, so that two
\* empty sets divide 0 by 0
calculateSimilarityNoGuard(A, B) ==
    [num |-> Cardinality({x \in A : x \in B}), den |-> Cardinality(A \cup B)]

calculateSimilarity(A, B) ==
    IF Cardinality(A) = 0 \/ Cardinality(B) = 0 THEN Num(0)
    ELSE LET intersectionSize == Cardinality({x \in A : x \in B})
             unionSize        == Cardinality(A \cup B)
         IN  IF unionSize = 0 THEN Num(0)
             ELSE [num |-> intersectionSize, den |-> unionSize]

(***************************************************************************)
(* Tokenizer harness: tokenize a text, then re-tokenize its own output.    *)
(***************************************************************************)
TokAlphabet == {"a", "N", "t", " ", "-", "!"}

RECURSIVE Texts(_)
Texts(n) ==
    IF n = 0 THEN {""}
    ELSE Texts(n - 1) \cup { s \o c : s \in Texts(n - 1), c \in TokAlphabet }

TokIdle ==
    /\ text = "" /\ kw = <<>> /\ kw2 = <<>> /\ tokPc = "idle"

JacIdle ==
    /\ setA = {} /\ setB = {} /\ sim = [num |-> 0, den |-> 1] /\ jacPc = "idle"

HybIdle ==
    /\ request = [method |-> "NONE"]
    /\ env = [appKey |-> FALSE, secretKey |-> FALSE, ratelimit |-> FALSE]
    /\ limiter = "idle" /\ upstream = "idle" /\ pc = "idle"
    /\ responses = <<>> /\ fetchCalls = <<>>
    /\ titleKeywords = <<>> /\ userQueryKeywords = <<>>
    /\ allResults = <<>> /\ candidates = <<>> /\ alternatives = <<>>

DualIdle ==
    /\ dRequest = [method |-> "NONE"] /\ dEnv = [appKey |-> FALSE, secretKey |-> FALSE]
    /\ callPc = <<"idle", "idle">>
    /\ callUpstream = <<[kind |-> "idle", product |-> <<>>],
                        [kind |-> "idle", product |-> <<>>]>>
    /\ callResult = <<[iterable |-> TRUE, items |-> <<>>],
                      [iterable |-> TRUE, items |-> <<>>]>>
    /\ finished = <<>> /\ dResponses = <<>>

TokInit ==
    /\ text \in Texts(MaxTextLen)
    /\ kw = <<>> /\ kw2 = <<>> /\ tokPc = "start"
    /\ JacIdle /\ HybIdle /\ DualIdle

\* const titleKeywords = getKeywordSet(amazonTitle)
Tokenize ==
    /\ tokPc = "start"
    /\ kw' = getKeywordSet(text)
    /\ tokPc' = "tokenized"
    /\ UNCHANGED <<text, kw2, jacVars, hybVars, dualVars>>

\* the keywords joined by whitespace and tokenized again
Retokenize ==
    /\ tokPc = "tokenized"
    /\ kw2' = getKeywordSet(JoinSpace(kw))
    /\ tokPc' = "done"
    /\ UNCHANGED <<text, kw, jacVars, hybVars, dualVars>>

TokNext == Tokenize \/ Retokenize

SpecTok == TokInit /\ [][TokNext]_vars

\* C7: tokenize is idempotent on its own output (re-tokenizing the tokens
\* joined by whitespace gives the same set); the returned set holds no
\* stop-word and no empty string, a repeated word appears once, and the
\* empty text gives the empty set.
C7_TokenizeIdempotent ==
    /\ tokPc \in {"tokenized", "done"} =>
          /\ \A i \in 1..Len(kw) : kw[i] \notin stopWords /\ kw[i] # ""
          /\ \A i, j \in 1..Len(kw) : kw[i] = kw[j] => i = j
          /\ text = "" => kw = <<>>
    /\ tokPc = "done" => kw2 = kw /\ Range(kw2) = Range(kw)

\* a text with punctuation, a stop-word and a repeated word was tokenized
\* and re-tokenized
C7_Witness ==
    /\ tokPc = "done"
    /\ kw # <<>>
    /\ \E c \in Chars(text) : c \notin KeptChars /\ LowerChar(c) \notin KeptChars
    /\ Len(SelectSeq(SplitWhitespace(StripChars(ToLowerCase(text))),
                     LAMBDA w : w # "")) > Len(kw)

(***************************************************************************)
(* Similarity harness: calculateSimilarity on two keyword sets.            *)
(***************************************************************************)
JacTokens == { SubSeq(LowerAlpha, i, i) : i \in 1..MaxTok }

JacInit ==
    /\ setA \in SUBSET JacTokens
    /\ setB \in SUBSET JacTokens
    /\ sim = Num(0) /\ jacPc = "start"
    /\ TokIdle /\ HybIdle /\ DualIdle

\* const userIntentScore = calculateSimilarity(userQueryKeywords, aliexpressKeywords)
Similarity ==
    /\ jacPc = "start"
    /\ sim' = calculateSimilarity(setA, setB)
    /\ jacPc' = "done"
    /\ UNCHANGED <<setA, setB, tokVars, hybVars, dualVars>>

JacNext == Similarity

SpecJac == JacInit /\ [][JacNext]_vars

\* C8: jaccard(A, A) = 1 for every nonempty A; jaccard(A, {}) =
\* jaccard({}, A) = 0 for every A, the empty one included; no division by
\* zero; the value is |A intersect B| / |A union B| and lies in [0, 1].
C8_Jaccard ==
    jacPc = "done" =>
        /\ sim.den > 0
        /\ (setA = setB /\ setA # {}) => sim.num = sim.den
        /\ (setA = {} \/ setB = {}) => sim.num = 0
        /\ sim.num * Cardinality(setA \cup setB)
               = Cardinality(setA \cap setB) * sim.den
        /\ 0 <= sim.num /\ sim.num <= sim.den

\* the similarity of a nonempty set with itself was computed
C8_Witness ==
    jacPc = "done" /\ setA = setB /\ Cardinality(setA) >= 2 /\ sim.num = sim.den

(***************************************************************************)
(* B. Knowledge base of src/api/proxy.js.                                  *)
(***************************************************************************)
PRODUCT_NOUNS ==
    {"case", "cover", "skin", "charger", "adapter", "cable", "powerbank",
     "battery", "mount", "stand", "holder", "grip", "tripod", "headphones",
     "earbuds", "headset", "speaker", "screen", "protector", "film", "glass",
     "wallet", "airpods"}

PRODUCT_CONFLICT_MAP ==
    [noun \in {"case", "screen", "protector", "charger"} |->
        CASE noun = "case" ->
                {"screen", "protector", "film", "glass", "charger", "cable",
                 "wallet", "airpods", "stand", "holder", "mount", "grip",
                 "powerbank"}
          [] noun = "screen" ->
                {"case", "cover", "charger", "cable", "wallet", "airpods",
                 "stand", "holder"}
          [] noun = "protector" ->
                {"case", "cover", "charger", "cable", "wallet", "airpods",
                 "stand", "holder"}
          [] noun = "charger" ->
                {"case", "cover", "screen", "protector", "film", "glass",
                 "stand", "holder", "mount", "grip"}]

(***************************************************************************)
(* parseFloat: leading whitespace, an optional sign, digits, an optional   *)
(* fraction; the longest such prefix is the number and what follows is     *)
(* ignored; NaN when it holds no digit.  (Exponents and the literal        *)
(* Infinity are not modelled: no price of the model uses them.)            *)
(***************************************************************************)
NaN == [nan |-> TRUE, num |-> 0, den |-> 1]

RECURSIVE TakeDigits(_)
TakeDigits(s) ==
    IF s # "" /\ Head(s) \in DigitChars
    THEN Head(s) \o TakeDigits(Tail(s))
    ELSE ""

DigitValue(c) == (CHOOSE j \in 1..Len(Digits) : SubSeq(Digits, j, j) = c) - 1

RECURSIVE DigitsValue(_, _)
DigitsValue(ds, acc) ==
    IF ds = "" THEN acc
    ELSE DigitsValue(Tail(ds), (acc * 10) + DigitValue(Head(ds)))

RECURSIVE Pow10(_)
Pow10(k) == IF k = 0 THEN 1 ELSE 10 * Pow10(k - 1)

parseFloat(str) ==
    LET s0       == DropWhitespace(str)
        negative == s0 # "" /\ Head(s0) = "-"
        s1       == IF s0 # "" /\ Head(s0) \in {"-", "+"} THEN Tail(s0) ELSE s0
        intPart  == TakeDigits(s1)
        s2       == SubSeq(s1, Len(intPart) + 1, Len(s1))
        fracPart == IF s2 # "" /\ Head(s2) = "." THEN TakeDigits(Tail(s2)) ELSE ""
        mantissa == DigitsValue(intPart \o fracPart, 0)
    IN  IF intPart = "" /\ fracPart = "" THEN NaN
        ELSE [nan |-> FALSE,
              num |-> IF negative THEN 0 - mantissa ELSE mantissa,
              den |-> Pow10(Len(fracPart))]

(***************************************************************************)
(* 4. The "Smart Hybrid" algorithm.  A candidate is a record                *)
(* [product_title, has_title, sale_price]; has_title = FALSE stands for an *)
(* upstream record without product_title, on which .toLowerCase() throws.  *)
(* The fields copied to the output unread (promotion_link, image URL,      *)
(* currency) are left out.                                                 *)
(***************************************************************************)
Null == [null |-> TRUE]

\* faulty variant: the first keyword with a conflict rule is
\* taken as the core noun, not the first product noun
coreNounWithRule(combined) ==
    IF \E i \in 1..Len(combined) : combined[i] \in DOMAIN PRODUCT_CONFLICT_MAP
    THEN combined[CHOOSE i \in 1..Len(combined) :
                    /\ combined[i] \in DOMAIN PRODUCT_CONFLICT_MAP
                    /\ \A j \in 1..(i - 1) :
                          combined[j] \notin DOMAIN PRODUCT_CONFLICT_MAP]
    ELSE ""

\* [...combinedAmazonKeywords].find(kw => PRODUCT_NOUNS.has(kw)); "" stands
\* for undefined (no keyword is the empty string)
RECURSIVE coreNoun(_)
coreNoun(combined) ==
    IF combined = <<>> THEN ""
    ELSE IF Head(combined) \in PRODUCT_NOUNS THEN Head(combined)
    ELSE coreNoun(Tail(combined))

FilterActive(combined) ==
    /\ coreNoun(combined) # ""
    /\ coreNoun(combined) \in DOMAIN PRODUCT_CONFLICT_MAP

\* STAGE 1
SmartFilter(results, combined) ==
    IF FilterActive(combined)
    THEN LET forbiddenProducts == PRODUCT_CONFLICT_MAP[coreNoun(combined)]
         IN  SelectSeq(results, LAMBDA item :
                LET aliexpressTitle == ToLowerCase(item.product_title)
                IN  ~ \E term \in forbiddenProducts :
                          Includes(aliexpressTitle, term))
    ELSE results

\* item.product_title.toLowerCase() on a record without a title
SmartFilterThrows(results, combined) ==
    /\ FilterActive(combined)
    /\ \E i \in 1..Len(results) : ~ results[i].has_title

\* faulty variant: the price equal to the reference passes
PriceGateInclusive(p, amazonPrice) ==
    /\ ~ p.nan
    /\ p.num > 0
    /\ p.num <= amazonPrice * p.den

\* faulty variant: the gate written as
\* !(price <= 0 || price >= amazonPrice), which NaN passes
PriceGateNaN(p, amazonPrice) ==
    \/ p.nan
    \/ (p.num > 0 /\ p.num < amazonPrice * p.den)

\* itemPriceNum > 0 && itemPriceNum < amazonPrice
PriceGate(p, amazonPrice) ==
    /\ ~ p.nan
    /\ p.num > 0
    /\ p.num < amazonPrice * p.den

IntentWeight  == 4
ContextWeight == 6
WeightScale   == 10

\* faulty variant: the two weights exchanged
finalScoreSwapped(userIntentScore, productContextScore) ==
    [num |-> (ContextWeight * userIntentScore.num * productContextScore.den)
             + (IntentWeight * productContextScore.num * userIntentScore.den),
     den |-> WeightScale * userIntentScore.den * productContextScore.den]

\* (0.40 * userIntentScore) + (0.60 * productContextScore)
finalScore(userIntentScore, productContextScore) ==
    [num |-> (IntentWeight * userIntentScore.num * productContextScore.den)
             + (ContextWeight * productContextScore.num * userIntentScore.den),
     den |-> WeightScale * userIntentScore.den * productContextScore.den]

\* the callback of candidates.map
ScoreItem(item, amazonPrice, queryKw, titleKw) ==
    LET itemPriceNum == parseFloat(item.sale_price)
    IN  IF ~ PriceGate(itemPriceNum, amazonPrice) THEN Null
        ELSE LET aliexpressKeywords  == getKeywordSet(item.product_title)
                 userIntentScore     ==
                     calculateSimilarity(Range(queryKw), Range(aliexpressKeywords))
                 productContextScore ==
                     calculateSimilarity(Range(titleKw), Range(aliexpressKeywords))
             IN  [title |-> item.product_title,
                  price |-> itemPriceNum,
                  score |-> finalScore(userIntentScore, productContextScore)]

\* getKeywordSet(item.product_title) on a record without a title: only
\* reached by a record that passed the price gate
ScoreThrows(cands, amazonPrice) ==
    \E i \in 1..Len(cands) :
        /\ PriceGate(parseFloat(cands[i].sale_price), amazonPrice)
        /\ ~ cands[i].has_title

\* STAGE 2, before the sort
ScoreAll(cands, amazonPrice, queryKw, titleKw) ==
    SelectSeq([i \in 1..Len(cands) |->
                  ScoreItem(cands[i], amazonPrice, queryKw, titleKw)],
              LAMBDA item : item # Null /\ item.score.num > 0)

\* the comparator (a, b) => b.score - a.score, as its sign
CompareScore(a, b) == (b.score.num * a.score.den) - (a.score.num * b.score.den)

\* faulty variant: an insertion that puts an element before
\* the elements that compare equal to it
RECURSIVE InsertBeforeEqual(_, _)
InsertBeforeEqual(sorted, x) ==
    IF sorted = <<>> THEN <<x>>
    ELSE IF CompareScore(Head(sorted), x) >= 0
         THEN <<x>> \o sorted
         ELSE <<Head(sorted)>> \o InsertBeforeEqual(Tail(sorted), x)

\* Array.prototype.sort is stable: an element goes after every element the
\* comparator does not put behind it
RECURSIVE InsertSorted(_, _)
InsertSorted(sorted, x) ==
    IF sorted = <<>> THEN <<x>>
    ELSE IF CompareScore(Head(sorted), x) > 0
         THEN <<x>> \o sorted
         ELSE <<Head(sorted)>> \o InsertSorted(Tail(sorted), x)

RECURSIVE SortFrom(_, _)
SortFrom(seq, acc) ==
    IF seq = <<>> THEN acc ELSE SortFrom(Tail(seq), InsertSorted(acc, Head(seq)))

\* alternatives.sort((a, b) => b.score - a.score)
SortByScore(seq) == SortFrom(seq, <<>>)

(***************************************************************************)
(* D. The Smart Hybrid handler.  The inputs of the model.                   *)
(***************************************************************************)
Methods   == {"OPTIONS", "POST", "GET"}
TitleMenu == {"", "Phone Case Pro", "USB Hub"}
QueryMenu == {"", "Phone Cover"}
\* amazonPrice: a JSON number, or a value whose typeof is not 'number'
PriceMenu == {[typeof |-> "number", val |-> 10],
              [typeof |-> "number", val |-> 12],
              [typeof |-> "string", val |-> 0]}

NoBody == [method |-> "POST", has_body |-> FALSE, amazonTitle |-> "",
           amazonPrice |-> [typeof |-> "string", val |-> 0],
           amazonSearchQuery |-> ""]

Requests ==
    [method : Methods, has_body : {TRUE}, amazonTitle : TitleMenu,
     amazonPrice : PriceMenu, amazonSearchQuery : QueryMenu]
    \cup {NoBody}

Envs == [appKey : BOOLEAN, secretKey : BOOLEAN, ratelimit : BOOLEAN]

CandidateTitles == {"Phone Case", "Glassy Phone!", "USB Hub"}
CandidatePrices == {"8", "12", "n/a", "9.5usd", "-3"}

Candidates ==
    [product_title : CandidateTitles, has_title : {TRUE},
     sale_price : CandidatePrices]
    \cup [product_title : {""}, has_title : {FALSE}, sale_price : {"8", "n/a"}]

RECURSIVE ListsOf(_, _)
ListsOf(S, n) ==
    IF n = 0 THEN {<<>>}
    ELSE ListsOf(S, n - 1)
         \cup { Append(l, x) : l \in ListsOf(S, n - 1), x \in S }

CandidateLists == ListsOf(Candidates, MaxCandidates)

HybInit ==
    /\ request \in Requests
    /\ env \in Envs
    /\ limiter = "unset" /\ upstream = "unset" /\ pc = "start"
    /\ responses = <<>> /\ fetchCalls = <<>>
    /\ titleKeywords = <<>> /\ userQueryKeywords = <<>>
    /\ allResults = <<>> /\ candidates = <<>> /\ alternatives = <<>>
    /\ TokIdle /\ JacIdle /\ DualIdle

\* response.status(code).json(body) / .end(): the handler returns with it
Respond(code, body) ==
    /\ responses' = Append(responses, [status |-> code, body |-> body])
    /\ pc' = "done"

\* new Set([...userQueryKeywords, ...titleKeywords])
combinedAmazonKeywords(queryKw, titleKw) == ToSet(queryKw \o titleKw)

\* [...combinedAmazonKeywords].slice(0, 7)
Slice7(seq) == SubSeq(seq, 1, IF Len(seq) < 7 THEN Len(seq) ELSE 7)

searchApiQuery(req, queryKw, titleKw) ==
    IF Len(queryKw) > 2 THEN req.amazonSearchQuery
    ELSE JoinSpace(Slice7(combinedAmazonKeywords(queryKw, titleKw)))

\* !amazonTitle || typeof amazonPrice !== 'number' || !appKey || !secretKey
MissingParameters(req, e) ==
    \/ req.amazonTitle = ""
    \/ req.amazonPrice.typeof # "number"
    \/ ~ e.appKey
    \/ ~ e.secretKey

\* From the CORS headers to the await of fetch: the method gates, the
\* destructuring of request.body (a TypeError when there is no body, caught
\* by the handler's catch), the parameter check, and the upstream call.
AfterLimiter ==
    IF request.method = "OPTIONS"
    THEN /\ Respond(200, "end")
         /\ UNCHANGED <<fetchCalls, titleKeywords, userQueryKeywords>>
    ELSE IF request.method # "POST"
    THEN /\ Respond(405, "Method Not Allowed")
         /\ UNCHANGED <<fetchCalls, titleKeywords, userQueryKeywords>>
    ELSE IF ~ request.has_body
    THEN /\ Respond(500, "An internal server error occurred.")
         /\ UNCHANGED <<fetchCalls, titleKeywords, userQueryKeywords>>
    ELSE IF MissingParameters(request, env)
    THEN /\ Respond(400, "Missing required parameters or server keys.")
         /\ UNCHANGED <<fetchCalls, titleKeywords, userQueryKeywords>>
    ELSE /\ titleKeywords' = getKeywordSet(request.amazonTitle)
         /\ userQueryKeywords' = getKeywordSet(request.amazonSearchQuery)
         /\ fetchCalls' = Append(fetchCalls,
                searchApiQuery(request, userQueryKeywords', titleKeywords'))
         /\ pc' = "awaitFetch"
         /\ UNCHANGED responses

\* no rate limiter configured: straight to the gates
StartNoLimiter ==
    /\ pc = "start"
    /\ ~ env.ratelimit
    /\ limiter' = "none"
    /\ AfterLimiter
    /\ UNCHANGED <<request, env, upstream, allResults, candidates, alternatives,
                   tokVars, jacVars, dualVars>>

\* await ratelimit.limit(ip)
StartLimiter ==
    /\ pc = "start"
    /\ env.ratelimit
    /\ limiter' = "pending"
    /\ pc' = "awaitLimit"
    /\ UNCHANGED <<request, env, upstream, responses, fetchCalls, titleKeywords,
                   userQueryKeywords, allResults, candidates, alternatives,
                   tokVars, jacVars, dualVars>>

\* success = false
LimitDenied ==
    /\ pc = "awaitLimit"
    /\ limiter' = "denied"
    /\ Respond(429, "Too Many Requests")
    /\ UNCHANGED <<request, env, upstream, fetchCalls, titleKeywords,
                   userQueryKeywords, allResults, candidates, alternatives,
                   tokVars, jacVars, dualVars>>

\* success = true
LimitAllowed ==
    /\ pc = "awaitLimit"
    /\ limiter' = "allowed"
    /\ AfterLimiter
    /\ UNCHANGED <<request, env, upstream, allResults, candidates, alternatives,
                   tokVars, jacVars, dualVars>>

\* faulty variant: a rate-limiter error answered 500 (failing
\* closed)
LimitErrorFailsClosed ==
    /\ pc = "awaitLimit"
    /\ limiter' = "error"
    /\ Respond(500, "An internal server error occurred.")
    /\ UNCHANGED <<request, env, upstream, fetchCalls, titleKeywords,
                   userQueryKeywords, allResults, candidates, alternatives,
                   tokVars, jacVars, dualVars>>

\* ratelimit.limit rejects: logged, and the handler goes on (fails open)
LimitError ==
    /\ pc = "awaitLimit"
    /\ limiter' = "error"
    /\ AfterLimiter
    /\ UNCHANGED <<request, env, upstream, allResults, candidates, alternatives,
                   tokVars, jacVars, dualVars>>

\* fetch rejects (network error): caught, 500
FetchRejects ==
    /\ pc = "awaitFetch"
    /\ upstream' = "network_error"
    /\ Respond(500, "An internal server error occurred.")
    /\ UNCHANGED <<request, env, limiter, fetchCalls, titleKeywords,
                   userQueryKeywords, allResults, candidates, alternatives,
                   tokVars, jacVars, dualVars>>

\* !apiResponse.ok: throw, caught, 500
FetchNotOk ==
    /\ pc = "awaitFetch"
    /\ upstream' = "not_ok"
    /\ Respond(500, "An internal server error occurred.")
    /\ UNCHANGED <<request, env, limiter, fetchCalls, titleKeywords,
                   userQueryKeywords, allResults, candidates, alternatives,
                   tokVars, jacVars, dualVars>>

\* apiResponse.ok: await apiResponse.json()
FetchOk ==
    /\ pc = "awaitFetch"
    /\ upstream' = "ok"
    /\ pc' = "awaitJson"
    /\ UNCHANGED <<request, env, limiter, responses, fetchCalls, titleKeywords,
                   userQueryKeywords, allResults, candidates, alternatives,
                   tokVars, jacVars, dualVars>>

\* apiResponse.json() rejects (the body is not JSON): caught, 500
JsonRejects ==
    /\ pc = "awaitJson"
    /\ upstream' = "bad_json"
    /\ Respond(500, "An internal server error occurred.")
    /\ UNCHANGED <<request, env, limiter, fetchCalls, titleKeywords,
                   userQueryKeywords, allResults, candidates, alternatives,
                   tokVars, jacVars, dualVars>>

\* Stages 1 and 2 and the response, on the product list of the payload
Pipeline(products) ==
    LET combined == combinedAmazonKeywords(userQueryKeywords, titleKeywords)
        filtered == SmartFilter(products, combined)
        price    == request.amazonPrice.val
    IN  /\ allResults' = products
        /\ IF SmartFilterThrows(products, combined)
           THEN /\ UNCHANGED <<candidates, alternatives>>
                /\ Respond(500, "An internal server error occurred.")
           ELSE IF ScoreThrows(filtered, price)
           THEN /\ candidates' = filtered
                /\ UNCHANGED alternatives
                /\ Respond(500, "An internal server error occurred.")
           ELSE /\ candidates' = filtered
                /\ alternatives' =
                       SortByScore(ScoreAll(filtered, price,
                                            userQueryKeywords, titleKeywords))
                /\ Respond(200, alternatives')

\* the payload carries no product list (an error_response, an empty
\* result): allResults = []
JsonWithoutProducts ==
    /\ pc = "awaitJson"
    /\ upstream' = "no_products"
    /\ Pipeline(<<>>)
    /\ UNCHANGED <<request, env, limiter, fetchCalls, titleKeywords,
                   userQueryKeywords, tokVars, jacVars, dualVars>>

\* the payload carries a product list
JsonWithProducts ==
    /\ pc = "awaitJson"
    /\ upstream' = "products"
    /\ \E products \in CandidateLists : Pipeline(products)
    /\ UNCHANGED <<request, env, limiter, fetchCalls, titleKeywords,
                   userQueryKeywords, tokVars, jacVars, dualVars>>

Next ==
    \/ StartNoLimiter
    \/ StartLimiter
    \/ LimitDenied
    \/ LimitAllowed
    \/ LimitError
    \/ FetchRejects
    \/ FetchNotOk
    \/ FetchOk
    \/ JsonRejects
    \/ JsonWithoutProducts
    \/ JsonWithProducts

Spec == HybInit /\ [][Next]_vars

(***************************************************************************)
(* Properties of the Smart Hybrid handler.                                 *)
(***************************************************************************)
\* the request was answered by the ranked list
Answered200 ==
    /\ pc = "done"
    /\ upstream \in {"products", "no_products"}
    /\ responses[1].status = 200

Results == responses[1].body

ReferencePrice == request.amazonPrice.val

SameScore(a, b) == a.num * b.den = b.num * a.den

\* the price of a candidate parses to a positive number below the reference
InRange(c) ==
    LET p == parseFloat(c.sale_price)
    IN  ~ p.nan /\ p.num > 0 /\ p.num < ReferencePrice * p.den

\* C1: every entry of the ranked output has 0 < score <= 1 and a parsed
\* price with 0 < price < referencePrice; a candidate whose price is not
\* strictly below the reference price never appears, whatever its title.
C1_ScoreAndPriceBounds ==
    Answered200 =>
        /\ \A i \in 1..Len(Results) :
              /\ Results[i].score.den > 0
              /\ 0 < Results[i].score.num
              /\ Results[i].score.num <= Results[i].score.den
              /\ ~ Results[i].price.nan
              /\ 0 < Results[i].price.num
              /\ Results[i].price.num < ReferencePrice * Results[i].price.den
        /\ \A k \in 1..Len(allResults) :
              ~ InRange(allResults[k]) =>
                  ~ \E i \in 1..Len(Results) :
                        /\ Results[i].title = allResults[k].product_title
                        /\ Results[i].price = parseFloat(allResults[k].sale_price)

\* reference 10 and title "Phone Case Pro"; a "Phone Case" at 12 is left
\* out while a "Phone Case" at a lower price is returned
C1_Witness ==
    /\ Answered200
    /\ ReferencePrice = 10
    /\ request.amazonTitle = "Phone Case Pro"
    /\ \E k \in 1..Len(allResults) :
          /\ allResults[k].product_title = "Phone Case"
          /\ allResults[k].sale_price = "12"
    /\ Len(Results) = 1
    /\ Results[1].title = "Phone Case"

\* the core noun and its rule, as the filter's contract states them
ContractCombined == ToSet(userQueryKeywords \o titleKeywords)

ContractNounAt ==
    { i \in 1..Len(ContractCombined) : ContractCombined[i] \in PRODUCT_NOUNS }

ContractCoreNoun ==
    IF ContractNounAt = {} THEN ""
    ELSE ContractCombined[CHOOSE i \in ContractNounAt :
                              \A j \in ContractNounAt : i <= j]

ContractHasRule ==
    ContractCoreNoun # "" /\ ContractCoreNoun \in DOMAIN PRODUCT_CONFLICT_MAP

ContractForbidden(item, core) ==
    LET lowered == ToLowerCase(item.product_title)
    IN  \E term \in PRODUCT_CONFLICT_MAP[core] : Includes(lowered, term)

AllTitled == \A k \in 1..Len(allResults) : allResults[k].has_title

\* C3: the Smart Filter's output is the subsequence, in the same order, of
\* the input candidates whose lower-cased title contains no forbidden token
\* of the core noun (the first ProductVocabulary token of the combined
\* reference keywords); with no core noun, or a core noun without a
\* ConflictMap entry, the list is returned unchanged.
C3_SmartFilterContract ==
    (/\ pc = "done"
     /\ upstream \in {"products", "no_products"}
     /\ (AllTitled \/ ~ ContractHasRule)) =>
        LET core == ContractCoreNoun
        IN  /\ Len(candidates) <= Len(allResults)
            /\ ContractHasRule =>
                  candidates =
                      SelectSeq(allResults,
                                LAMBDA item : ~ ContractForbidden(item, core))
            /\ ~ ContractHasRule => candidates = allResults

\* core noun "case": one candidate dropped for "glass", one kept
C3_Witness ==
    /\ Answered200
    /\ ContractCoreNoun = "case"
    /\ Len(allResults) = 2
    /\ Len(candidates) = 1
    /\ \E k \in 1..2 : allResults[k].product_title = "Glassy Phone!"

\* the scored survivors, before the sort
ScoredSurvivors ==
    ScoreAll(candidates, ReferencePrice, userQueryKeywords, titleKeywords)

\* C4: the ranked output is a stable sort of the scored candidates by score
\* descending: adjacent pairs are non-increasing in score, the output is a
\* permutation of the scored survivors, and candidates with equal scores
\* keep the relative order they had in the candidate list.
C4_StableSortDescending ==
    Answered200 =>
        LET scored == ScoredSurvivors
        IN  /\ Len(Results) = Len(scored)
            /\ \A i \in 1..(Len(Results) - 1) :
                  Results[i].score.num * Results[i + 1].score.den
                      >= Results[i + 1].score.num * Results[i].score.den
            /\ \A k \in 1..Len(scored) :
                  SelectSeq(Results,
                            LAMBDA r : SameScore(r.score, scored[k].score))
                  = SelectSeq(scored,
                            LAMBDA r : SameScore(r.score, scored[k].score))

\* two different records with the same score were ranked
C4_Witness ==
    /\ Answered200
    /\ Len(Results) = 2
    /\ Results[1] # Results[2]
    /\ SameScore(Results[1].score, Results[2].score)

\* |A intersect B| / |A union B|, 0 when either set is empty
ContractJaccard(A, B) ==
    IF A = {} \/ B = {} THEN Num(0)
    ELSE [num |-> Cardinality(A \cap B), den |-> Cardinality(A \cup B)]

\* 0.40 * jaccard(query, candidate) + 0.60 * jaccard(title, candidate)
ContractScore(c) ==
    LET ck == Range(getKeywordSet(c.product_title))
        i  == ContractJaccard(Range(userQueryKeywords), ck)
        x  == ContractJaccard(Range(titleKeywords), ck)
    IN  [num |-> (4 * i.num * x.den) + (6 * x.num * i.den),
         den |-> 10 * i.den * x.den]

ContractEmits(c) == InRange(c) /\ ContractScore(c).num > 0

\* the output entries that come from candidate c
EntriesOf(c) ==
    { i \in 1..Len(Results) :
        /\ Results[i].title = c.product_title
        /\ Results[i].price = parseFloat(c.sale_price)
        /\ SameScore(Results[i].score, ContractScore(c)) }

\* C5: a candidate that survives the Smart Filter is emitted exactly once
\* if and only if its parsed price is positive and strictly below the
\* reference price and finalScore > 0, where finalScore = 0.40 *
\* jaccard(query keywords, candidate keywords) + 0.60 * jaccard(title
\* keywords, candidate keywords); the emitted score is that finalScore and
\* nothing else is emitted or dropped.
C5_ScorerEmitsExactly ==
    Answered200 =>
        /\ Len(Results) =
               Cardinality({k \in 1..Len(candidates) : ContractEmits(candidates[k])})
        /\ \A k \in 1..Len(candidates) :
              Cardinality(EntriesOf(candidates[k])) =
                  IF ContractEmits(candidates[k])
                  THEN Cardinality({j \in 1..Len(candidates) :
                                       candidates[j] = candidates[k]})
                  ELSE 0
        /\ \A i \in 1..Len(Results) :
              \E k \in 1..Len(candidates) : i \in EntriesOf(candidates[k])

\* empty search query: a candidate sharing a title keyword and priced lower
\* is returned, one priced lower that shares no keyword is dropped
C5_Witness ==
    /\ Answered200
    /\ request.amazonSearchQuery = ""
    /\ Len(candidates) = 2
    /\ InRange(candidates[1]) /\ InRange(candidates[2])
    /\ Len(Results) = 1
    /\ Results[1].score.num > 0

\* C6: the core pipeline is total: for a reference item and a candidate list
\* of the data model it returns a result list, never an error; a candidate
\* with an unparsable or out-of-range price is left out on its own and the
\* outcome for every other candidate is unchanged; empty keyword sets and an
\* unrecognized core noun give a result list too.
C6_PipelineTotal ==
    (/\ pc = "done"
     /\ upstream \in {"products", "no_products"}
     /\ AllTitled) =>
        /\ responses[1].status = 200
        /\ LET priced == SelectSeq(allResults, InRange)
           IN  Results =
                   SortByScore(ScoreAll(SmartFilter(priced, ContractCombined),
                                        ReferencePrice, userQueryKeywords,
                                        titleKeywords))

\* an unparsable price beside a candidate that is returned, with an empty
\* query keyword set
C6_Witness ==
    /\ Answered200
    /\ userQueryKeywords = <<>>
    /\ Len(allResults) = 2
    /\ allResults[1].sale_price = "n/a" /\ allResults[1].has_title
    /\ Len(Results) = 1

\* the status the gates give, in their order
GateStatus ==
    IF limiter = "denied" THEN 429
    ELSE IF request.method = "OPTIONS" THEN 200
    ELSE IF request.method # "POST" THEN 405
    ELSE IF ~ request.has_body THEN 500
    ELSE IF \/ request.amazonTitle = ""
            \/ request.amazonPrice.typeof # "number"
            \/ ~ (env.appKey /\ env.secretKey) THEN 400
    ELSE IF upstream \in {"network_error", "not_ok", "bad_json"} THEN 500
    ELSE IF \E k \in 1..Len(allResults) :
                /\ ~ allResults[k].has_title
                /\ (InRange(allResults[k]) \/ ContractHasRule) THEN 500
    ELSE 200

Calls == {1, 2}

Products ==
    {[product_id |-> 1, sale_price |-> "8"],
     [product_id |-> 2, sale_price |-> "8"],
     [product_id |-> 2, sale_price |-> "9"],
     [product_id |-> 3, sale_price |-> "8"]}

ProductLists == ListsOf(Products, MaxProducts)

\* a request without a body carries no keywords
DualRequests ==
    [method : {"POST", "GET"}, has_body : {TRUE}, keywords : {"", "phone case"}]
    \cup [method : {"POST", "GET"}, has_body : {FALSE}, keywords : {""}]

DualEnvs == [appKey : BOOLEAN, secretKey : BOOLEAN]

Unset == [kind |-> "unset", product |-> <<>>]

Array(items) == [iterable |-> TRUE, items |-> items]

NotAnArray == [iterable |-> FALSE, items |-> <<>>]

DualInit ==
    /\ dRequest \in DualRequests
    /\ dEnv \in DualEnvs
    /\ callPc = <<"idle", "idle">>
    /\ callUpstream = <<Unset, Unset>>
    /\ callResult = <<Array(<<>>), Array(<<>>)>>
    /\ finished = <<>>
    /\ dResponses = <<>>
    /\ TokIdle /\ JacIdle /\ HybIdle

DualRespond(code, body) ==
    dResponses' = Append(dResponses, [status |-> code, body |-> body])

\* Map.prototype.set: a key already present keeps its place and takes the
\* new value
MapSet(m, key, value) ==
    IF \E i \in 1..Len(m) : m[i].key = key
    THEN [i \in 1..Len(m) |->
             IF m[i].key = key THEN [key |-> key, value |-> value] ELSE m[i]]
    ELSE Append(m, [key |-> key, value |-> value])

\* new Map(entries)
RECURSIVE MapFrom(_, _)
MapFrom(entries, m) ==
    IF entries = <<>> THEN m
    ELSE MapFrom(Tail(entries), MapSet(m, Head(entries)[1], Head(entries)[2]))

\* Array.from(new Map([...a, ...b].map(item => [item.product_id, item])).values())
uniqueResults(bestMatchResults, bestSellerResults) ==
    LET all     == bestMatchResults \o bestSellerResults
        entries == [i \in 1..Len(all) |-> <<all[i].product_id, all[i]>>]
        map     == MapFrom(entries, <<>>)
    IN  [i \in 1..Len(map) |-> map[i].value]

\* faulty variant: the results taken in the order the calls
\* finished
PromiseAllByCompletion(results, order) ==
    <<results[order[1]], results[order[2]]>>

\* Promise.all: the results in the order of the promises passed, whatever
\* the order they settled in
PromiseAll(results, order) == <<results[1], results[2]>>

\* the handler up to Promise.all: the gates, then both calls run to their
\* await of fetch
DualStart ==
    /\ callPc = <<"idle", "idle">>
    /\ dResponses = <<>>
    /\ IF dRequest.method # "POST"
       THEN /\ DualRespond(405, "Method Not Allowed")
            /\ callPc' = <<"skipped", "skipped">>
       ELSE IF ~ (dEnv.appKey /\ dEnv.secretKey)
       THEN /\ DualRespond(500, "API keys are not configured on the server.")
            /\ callPc' = <<"skipped", "skipped">>
       ELSE IF ~ dRequest.has_body
       THEN \* the destructuring throws outside any try: the platform answers
            /\ DualRespond(500, "unhandled TypeError")
            /\ callPc' = <<"skipped", "skipped">>
       ELSE IF dRequest.keywords = ""
       THEN /\ DualRespond(400, "Keywords are required.")
            /\ callPc' = <<"skipped", "skipped">>
       ELSE /\ callPc' = <<"awaitFetch", "awaitFetch">>
            /\ UNCHANGED dResponses
    /\ UNCHANGED <<dRequest, dEnv, callUpstream, callResult, finished,
                   tokVars, jacVars, hybVars>>

\* createApiCall returns
Return(i, kind, product, result) ==
    /\ callUpstream' = [callUpstream EXCEPT ![i] = [kind |-> kind, product |-> product]]
    /\ callResult' = [callResult EXCEPT ![i] = result]
    /\ callPc' = [callPc EXCEPT ![i] = "returned"]
    /\ finished' = Append(finished, i)
    /\ UNCHANGED <<dRequest, dEnv, dResponses, tokVars, jacVars, hybVars>>

\* fetch rejects: catch (e) { return [] }
CallFetchRejects(i) ==
    /\ callPc[i] = "awaitFetch"
    /\ Return(i, "network_error", <<>>, Array(<<>>))

\* if (!apiResponse.ok) return []
CallNotOk(i) ==
    /\ callPc[i] = "awaitFetch"
    /\ Return(i, "not_ok", <<>>, Array(<<>>))

\* apiResponse.ok: await apiResponse.json()
CallFetchOk(i) ==
    /\ callPc[i] = "awaitFetch"
    /\ callPc' = [callPc EXCEPT ![i] = "awaitJson"]
    /\ UNCHANGED <<dRequest, dEnv, callUpstream, callResult, finished,
                   dResponses, tokVars, jacVars, hybVars>>

\* apiResponse.json() rejects: catch (e) { return [] }
CallJsonRejects(i) ==
    /\ callPc[i] = "awaitJson"
    /\ Return(i, "bad_json", <<>>, Array(<<>>))

\* data.error_response, or no resp_result.result: return []
CallErrorPayload(i) ==
    /\ callPc[i] = "awaitJson"
    /\ Return(i, "error_payload", <<>>, Array(<<>>))

\* return ...result.products?.product || []
CallProducts(i) ==
    /\ callPc[i] = "awaitJson"
    /\ \E product \in ProductLists : Return(i, "products", product, Array(product))

\* products.product is there and is not an array: returned as it is
CallMalformedProducts(i) ==
    /\ callPc[i] = "awaitJson"
    /\ Return(i, "malformed_products", <<>>, NotAnArray)

\* Promise.all resolved: merge and answer; a throw of the merge is caught
DualMerge ==
    /\ callPc = <<"returned", "returned">>
    /\ dResponses = <<>>
    /\ LET both == PromiseAll(callResult, finished)
           bestMatchResults  == both[1]
           bestSellerResults == both[2]
       IN  IF bestMatchResults.iterable /\ bestSellerResults.iterable
           THEN DualRespond(200, uniqueResults(bestMatchResults.items,
                                               bestSellerResults.items))
           ELSE DualRespond(500, "Search request failed on the server.")
    /\ UNCHANGED <<dRequest, dEnv, callPc, callUpstream, callResult, finished,
                   tokVars, jacVars, hybVars>>

DualNext ==
    \/ DualStart
    \/ \E i \in Calls :
          \/ CallFetchRejects(i)
          \/ CallNotOk(i)
          \/ CallFetchOk(i)
          \/ CallJsonRejects(i)
          \/ CallErrorPayload(i)
          \/ CallProducts(i)
          \/ CallMalformedProducts(i)
    \/ DualMerge

SpecDual == DualInit /\ [][DualNext]_vars

(***************************************************************************)
(* Properties of the dual-query handler.                                   *)
(***************************************************************************)
DualAnswered200 == dResponses # <<>> /\ dResponses[1].status = 200

\* what each upstream query delivered: list A and list B
ListA == callUpstream[1].product
ListB == callUpstream[2].product

\* the first occurrence of each identifier, in order of first appearance
RECURSIVE KeepFirst(_, _)
KeepFirst(seq, acc) ==
    IF seq = <<>> THEN acc
    ELSE KeepFirst(Tail(seq),
                   IF \E i \in 1..Len(acc) : acc[i].product_id = Head(seq).product_id
                   THEN acc
                   ELSE Append(acc, Head(seq)))

\* C2: dedup-merge of list A followed by list B yields one record per
\* distinct product identifier, in order of first appearance in A-then-B,
\* and the record kept for an identifier is its first occurrence: for an
\* identifier in both A and B, A's record is the one in the output.
C2_DedupKeepsFirst ==
    DualAnswered200 => dResponses[1].body = KeepFirst(ListA \o ListB, <<>>)

\* C9: the two upstream queries run in parallel and the merged response is
\* the same for every interleaving of their completions: the best-match
\* list is always list A and the best-seller list always list B, whichever
\* finishes first; the response is sent only after both have completed; a
\* failed query (network error, non-OK status, error payload) counts as an
\* empty list and the request still answers 200 with the other's products.
C9_ParallelMerge ==
    /\ Len(dResponses) <= 1
    /\ (dResponses # <<>> /\ callPc # <<"skipped", "skipped">>)
           => callPc = <<"returned", "returned">>
    /\ (callPc = <<"returned", "returned">> /\ dResponses # <<>>) =>
          /\ (\A i \in Calls : callUpstream[i].kind # "malformed_products")
                 => dResponses[1].status = 200
          /\ DualAnswered200 =>
                /\ dResponses[1].body = uniqueResults(ListA, ListB)
                /\ \A i \in Calls :
                      callUpstream[i].kind # "products" => callUpstream[i].product = <<>>
                /\ \A k \in 1..Len(dResponses[1].body) :
                      \E j \in 1..Len(ListA \o ListB) :
                          (ListA \o ListB)[j] = dResponses[1].body[k]
                /\ \A j \in 1..Len(ListA \o ListB) :
                      \E k \in 1..Len(dResponses[1].body) :
                          dResponses[1].body[k].product_id
                              = (ListA \o ListB)[j].product_id
                /\ (ListA # <<>>) => dResponses[1].body[1].product_id
                                        = ListA[1].product_id

\* list B arrived first, list A failed on the network, and the answer is
\* 200 with B's products
C9_Witness ==
    /\ DualAnswered200
    /\ finished = <<2, 1>>
    /\ callUpstream[1].kind = "network_error"
    /\ callUpstream[2].kind = "products"
    /\ Len(ListB) = 2
    /\ ListB[1].product_id # ListB[2].product_id
    /\ dResponses[1].body = ListB

====
